---- MODULE Spec2Model ----
(***************************************************************************)
(* The ElevenLabs speech-to-text provider of xiaozhi-server                *)
(* (core/providers/asr/elevenlabs.py): ASRProvider.save_audio_to_file and  *)
(* ASRProvider.speech_to_text, with the temp directory as shared storage.  *)
(*                                                                         *)
(* Optional values (Python's None or a value) are sequences of length at   *)
(* most one: None is << >> and a value v is <<v>>.  Strings the code only  *)
(* passes on are TLA+ strings; strings it transforms (str.strip) are       *)
(* sequences of characters.                                                *)
(***************************************************************************)
EXTENDS Integers, Sequences, FiniteSets, TLC

\* ------------------------------------------------------------------ bounds

\* Longest packet list handed to speech_to_text.
MaxPackets == 2
\* Longest text (response body, "text" field, exception message).
MaxText == 3

\* --------------------------------------------------------------- the values

None == << >>
Some(v) == <<v>>

\* The calls of speech_to_text a run makes; they may overlap in time.
Invocations == {1, 2}
SessionIds == {"s1", "s2"}

\* Opus packets: two that the decoder accepts and one it rejects, and one it
\* accepts that holds a 20 ms frame, a third of the 60 ms the code expects.
GoodPackets == {"p1", "p2"}
ShortPackets == {"p20"}
CorruptPackets == {"bad"}
Packets == GoodPackets \cup ShortPackets \cup CorruptPackets

RECURSIVE SeqsUpTo(_, _)
SeqsUpTo(S, n) ==
    IF n = 0 THEN {<< >>}
    ELSE LET shorter == SeqsUpTo(S, n - 1)
         IN  shorter \cup {Append(s, x) : s \in {t \in shorter : Len(t) = n - 1}, x \in S}

PacketLists == SeqsUpTo(Packets, MaxPackets)

\* Characters of a text: one that str.strip removes and one it keeps.
Whitespace == {" "}
Chars == Whitespace \cup {"h"}
Texts == SeqsUpTo(Chars, MaxText)

\* Messages of the exceptions the pipeline catches (str(e)); it may be empty.
Messages == {t \in Texts : Len(t) <= 1}

\* response.json() of a body: not JSON at all, a JSON value that is no object,
\* or an object whose "text" member is absent (None), null or a string.
JsonNull == [null |-> TRUE, str |-> << >>]
JsonString(t) == [null |-> FALSE, str |-> t]
JsonValues ==
    {[valid |-> FALSE, object |-> FALSE, text |-> None],
     [valid |-> TRUE, object |-> FALSE, text |-> None],
     [valid |-> TRUE, object |-> TRUE, text |-> None],
     [valid |-> TRUE, object |-> TRUE, text |-> Some(JsonNull)]}
    \cup {[valid |-> TRUE, object |-> TRUE, text |-> Some(JsonString(t))] : t \in Texts}

HTTP_OK == 200
StatusCodes == {HTTP_OK, 500}
NoJson == [valid |-> FALSE, object |-> FALSE, text |-> None]

\* What requests.post does: raise, or return a response.  A 200 response is
\* read through json() only and any other through its text only, so the part
\* the code does not read is left at a fixed value.
Responses ==
    {[status_code |-> HTTP_OK, text |-> << >>, json |-> j] : j \in JsonValues}
    \cup {[status_code |-> c, text |-> t, json |-> NoJson] :
            c \in StatusCodes \ {HTTP_OK}, t \in Texts}
PostResults == {None} \cup {Some(r) : r \in Responses}

\* The inputs of the runs in which two invocations overlap.
ConcPacketLists == {<< >>, <<"p1">>, <<"bad", "p2">>}
ConcPostResults ==
    {None,
     Some([status_code |-> HTTP_OK, text |-> << >>,
           json |-> [valid |-> TRUE, object |-> TRUE,
                     text |-> Some(JsonString(<<" ", "h">>))]]),
     Some([status_code |-> 500, text |-> <<"h">>, json |-> NoJson])}

\* ---------------------------------------------------------------- the state

VARIABLES
    pc,               \* where each invocation of speech_to_text stands
    opus_data,        \* its packet list
    session_id,       \* its session identifier
    audio_file_path,  \* the path save_audio_to_file allocated: None before
    pcm_data,         \* the frames decoded from its packets
    storage,          \* the temp directory: path -> what the file holds
    issued,           \* how many uuid4 values have been drawn
    uploaded,         \* the file content sent with the request: None before
    response,         \* what requests.post returned: None if it has not
    caught,           \* the message of the exception caught at line 131
    outcome,          \* the (text, error) pair of the return statement
    trace,            \* the steps the invocation has taken, in order
    provider,         \* the ASRProvider object: unconstructed, constructed,
                      \* or the exception its constructor raised
    api_key,          \* self.api_key
    temp_dir,         \* whether the temp directory is on storage
    dir_ops,          \* the directory operations the constructor has made
    options,          \* the transcription options of a call
    data,             \* the form fields built from them: None before
    intent_cache,     \* IntentProvider.intent_cache, in insertion order
    now,              \* time.time(), in seconds
    last_call         \* what the latest detect_intent call did

asrVars == <<pc, opus_data, session_id, audio_file_path, pcm_data, storage, issued,
             uploaded, response, caught, outcome, trace>>
providerVars == <<provider, api_key, temp_dir, dir_ops>>

formVars == <<options, data>>

intentVars == <<intent_cache, now, last_call>>

nonAsrVars == <<providerVars, formVars, intentVars>>

vars == <<asrVars, providerVars, formVars, intentVars>>

\* ----------------------------------------------------------------- __init__

\* config.get("api_key"): absent, empty, or a key.
ApiKeys == {None, Some(""), Some("key")}

\* `not self.api_key` with the key absent only, an empty key passing.
FalsyNoneOnly(key) == key = None

\* `not self.api_key`: None and the empty string are both false.
Falsy(key) == key = None \/ key = Some("")

\* Lines 18-32: the key is read and checked, and only then is the temp
\* directory made (mkdir with parents and exist_ok, which may itself fail).
ASRProvider_init ==
    /\ provider = "unconstructed"
    /\ \E key \in ApiKeys, made \in BOOLEAN :
         /\ api_key' = key
         /\ IF Falsy(key)
              THEN /\ provider' = "ValueError"
                   /\ UNCHANGED <<temp_dir, dir_ops>>
              ELSE /\ dir_ops' = Append(dir_ops, "mkdir")
                   /\ temp_dir' = (temp_dir \/ made)
                   /\ provider' = IF made THEN "constructed" ELSE "OSError"
    /\ UNCHANGED <<asrVars, formVars, intentVars>>

\* ------------------------------------------------------- save_audio_to_file

\* decoder.decode(opus_packet, 960): the frame of a packet the decoder
\* accepts, None for one on which it raises OpusError.
FrameSize == 960
decode(opus_packet) ==
    IF opus_packet \in CorruptPackets
        THEN None
        ELSE Some([of |-> opus_packet,
                   samples |-> IF opus_packet \in ShortPackets
                                 THEN FrameSize \div 3 ELSE FrameSize])

\* DecodeLoop with a frame of silence put in for a packet that fails.
RECURSIVE DecodeLoopGapFill(_)
DecodeLoopGapFill(packets) ==
    IF packets = << >> THEN << >>
    ELSE (IF decode(Head(packets)) = None
            THEN <<[of |-> "silence", samples |-> FrameSize]>>
            ELSE decode(Head(packets)))
         \o DecodeLoopGapFill(Tail(packets))

\* DecodeLoop with the loop left at the first OpusError.
RECURSIVE DecodeLoopAbort(_)
DecodeLoopAbort(packets) ==
    IF packets = << >> \/ decode(Head(packets)) = None THEN << >>
    ELSE decode(Head(packets)) \o DecodeLoopAbort(Tail(packets))

\* The decoding loop: the frames appended to pcm_data, in packet order.
RECURSIVE DecodeLoop(_)
DecodeLoop(packets) ==
    IF packets = << >> THEN << >>
    ELSE decode(Head(packets)) \o DecodeLoop(Tail(packets))

\* The container: one channel of 16-bit samples behind the header that
\* the wave module writes, then the frames' sample bytes end to end.
Channels == 1
SampleWidth == 2
HeaderSize == 44
RECURSIVE DataBytes(_)
DataBytes(frames) ==
    IF frames = << >> THEN 0
    ELSE Head(frames).samples * Channels * SampleWidth + DataBytes(Tail(frames))
ContainerBytes(frames) == HeaderSize + DataBytes(frames)

\* FilePath with the uuid4 left out of the file name.
FilePathSessionOnly(sid, uuid) == [session |-> sid, uuid |-> 0]

\* file_name / file_path: the session identifier and a fresh uuid4.
FilePath(sid, uuid) == [session |-> sid, uuid |-> uuid]

Exists(path) == \E f \in storage : f.path = path
FileAt(path) == CHOOSE f \in storage : f.path = path
\* open(path, "wb") and the writes that follow: the file is created or
\* truncated and then holds `frames`.
Written(path, frames, whole) ==
    {f \in storage : f.path # path}
        \cup {[path |-> path, frames |-> frames, whole |-> whole]}
Removed(path) == {f \in storage : f.path # path}

\* wave.open(..., "wb") with writeframes: it succeeds, it raises before the
\* file is created ("open_failed"), or it raises while writing and leaves a
\* truncated file behind ("write_failed").
WriteResults == {"ok", "open_failed", "write_failed"}

\* Line 88 with lines 34-58.  Nothing around the call catches what wave.open
\* raises, so the exception leaves speech_to_text.
save_audio_to_file(i, lists) ==
    /\ pc[i] = "idle"
    /\ \E packets \in lists, sid \in SessionIds, w \in WriteResults :
         LET path == FilePath(sid, issued + 1)
             frames == DecodeLoop(packets)
         IN  /\ opus_data' = [opus_data EXCEPT ![i] = packets]
             /\ session_id' = [session_id EXCEPT ![i] = sid]
             /\ audio_file_path' = [audio_file_path EXCEPT ![i] = Some(path)]
             /\ issued' = issued + 1
             /\ pcm_data' = [pcm_data EXCEPT ![i] = frames]
             /\ storage' = CASE w = "ok" -> Written(path, frames, TRUE)
                             [] w = "open_failed" -> storage
                             [] w = "write_failed" -> Written(path, << >>, FALSE)
             /\ pc' = [pc EXCEPT ![i] = IF w = "ok" THEN "check" ELSE "raised"]
             /\ trace' = [trace EXCEPT ![i] =
                    <<"allocate">> \o [k \in 1..Len(packets) |-> "decode"]
                    \o (IF w = "ok" THEN <<"write">> ELSE <<"write", "raise">>)]
    /\ UNCHANGED <<uploaded, response, caught, outcome>>
    /\ UNCHANGED nonAsrVars

\* ----------------------------------------------------------- speech_to_text

PathOf(i) == audio_file_path[i][1]

\* check_exists without the early return of line 92.
check_exists_always(i) ==
    /\ pc[i] = "check"
    /\ pc' = [pc EXCEPT ![i] = "open"]
    /\ trace' = [trace EXCEPT ![i] = @ \o <<"exists">>]
    /\ UNCHANGED <<opus_data, session_id, audio_file_path, pcm_data, storage,
                   issued, uploaded, response, caught, outcome>>
    /\ UNCHANGED nonAsrVars

\* check_exists with an early return for an empty packet list.
check_exists_unless_empty(i) ==
    /\ pc[i] = "check"
    /\ IF Exists(PathOf(i)) /\ opus_data[i] # << >>
         THEN /\ pc' = [pc EXCEPT ![i] = "open"]
              /\ trace' = [trace EXCEPT ![i] = @ \o <<"exists">>]
              /\ UNCHANGED outcome
         ELSE /\ pc' = [pc EXCEPT ![i] = "done"]
              /\ trace' = [trace EXCEPT ![i] =
                     @ \o (IF Exists(PathOf(i)) THEN <<"exists", "return">>
                                                ELSE <<"missing", "return">>)]
              /\ outcome' = [outcome EXCEPT ![i] = <<None, None>>]
    /\ UNCHANGED <<opus_data, session_id, audio_file_path, pcm_data, storage,
                   issued, uploaded, response, caught>>
    /\ UNCHANGED nonAsrVars

\* Lines 90-92: the file is looked up once; if it is not there the call
\* returns (None, None) at once.
check_exists(i) ==
    /\ pc[i] = "check"
    /\ IF Exists(PathOf(i))
         THEN /\ pc' = [pc EXCEPT ![i] = "open"]
              /\ trace' = [trace EXCEPT ![i] = @ \o <<"exists">>]
              /\ UNCHANGED outcome
         ELSE /\ pc' = [pc EXCEPT ![i] = "done"]
              /\ trace' = [trace EXCEPT ![i] = @ \o <<"missing", "return">>]
              /\ outcome' = [outcome EXCEPT ![i] = <<None, None>>]
    /\ UNCHANGED <<opus_data, session_id, audio_file_path, pcm_data, storage,
                   issued, uploaded, response, caught>>
    /\ UNCHANGED nonAsrVars

\* open_and_post with the file removed as soon as it is open, before the
\* request is sent.
open_and_post_removing(i) ==
    /\ pc[i] = "open"
    /\ Exists(PathOf(i))
    /\ pc' = [pc EXCEPT ![i] = "post"]
    /\ uploaded' = [uploaded EXCEPT ![i] = Some(FileAt(PathOf(i)).frames)]
    /\ storage' = Removed(PathOf(i))
    /\ trace' = [trace EXCEPT ![i] = @ \o <<"open", "remove", "post">>]
    /\ UNCHANGED <<opus_data, session_id, audio_file_path, pcm_data, issued,
                   response, caught, outcome>>
    /\ UNCHANGED nonAsrVars

\* Lines 113-121: open(audio_file_path, 'rb') and the start of requests.post.
\* open raises when the file is gone, and may raise when it is there (a
\* permission error); the except clause of line 131 catches it.
open_and_post(i) ==
    /\ pc[i] = "open"
    /\ \E opened \in (IF Exists(PathOf(i)) THEN BOOLEAN ELSE {FALSE}), m \in Messages :
         IF opened
           THEN /\ pc' = [pc EXCEPT ![i] = "post"]
                /\ uploaded' = [uploaded EXCEPT ![i] = Some(FileAt(PathOf(i)).frames)]
                /\ trace' = [trace EXCEPT ![i] = @ \o <<"open", "post">>]
                /\ UNCHANGED <<caught, outcome>>
           ELSE /\ pc' = [pc EXCEPT ![i] = "finally"]
                /\ caught' = [caught EXCEPT ![i] = Some(m)]
                /\ outcome' = [outcome EXCEPT ![i] = <<None, Some(m)>>]
                /\ trace' = [trace EXCEPT ![i] = @ \o <<"open", "except">>]
                /\ UNCHANGED uploaded
    /\ UNCHANGED <<opus_data, session_id, audio_file_path, pcm_data, storage,
                   issued, response>>
    /\ UNCHANGED nonAsrVars

\* str.strip(): the text without its leading and trailing whitespace.
RECURSIVE LStrip(_)
LStrip(t) == IF t # << >> /\ Head(t) \in Whitespace THEN LStrip(Tail(t)) ELSE t
RECURSIVE RStrip(_)
RStrip(t) ==
    IF t # << >> /\ t[Len(t)] \in Whitespace THEN RStrip(SubSeq(t, 1, Len(t) - 1)) ELSE t
\* strip that trims the leading whitespace only.
strip_leading_only(t) == LStrip(t)
strip(t) == RStrip(LStrip(t))

\* Does the try block raise, given what requests.post did (None: it raised)?
\* response.json() raises on a body that is not JSON, result.get on a JSON
\* value that is no object, and .strip() on a null "text".
Raises(r) ==
    \/ r = None
    \/ /\ r[1].status_code = HTTP_OK
       /\ \/ ~r[1].json.valid
          \/ ~r[1].json.object
          \/ r[1].json.text # None /\ r[1].json.text[1].null

\* result.get("text", "")
GetText(json) == IF json.text = None THEN << >> ELSE json.text[1].str

\* Outcome with the except clause returning no message.
OutcomeNoMessage(r, m) ==
    IF Raises(r) THEN <<None, None>>
    ELSE IF r[1].status_code = HTTP_OK
        THEN <<Some(strip(GetText(r[1].json))), None>>
        ELSE <<None, Some(r[1].text)>>

\* Lines 123-133: the pair the call returns, m being str(e) if it raises.
Outcome(r, m) ==
    IF Raises(r) THEN <<None, Some(m)>>
    ELSE IF r[1].status_code = HTTP_OK
        THEN <<Some(strip(GetText(r[1].json))), None>>
        ELSE <<None, Some(r[1].text)>>

\* AfterPost with a failed request sent again.
AfterPostRetry(r) ==
    IF r = None \/ r[1].status_code # HTTP_OK THEN "open" ELSE "finally"

\* Where the call goes once the try block has produced its pair: every
\* path, the return statements and the except clause alike, enters finally.
AfterPost(r) == "finally"

\* Lines 116-133: requests.post returns or raises, and the pair is made.
post_returns(i, results) ==
    /\ pc[i] = "post"
    /\ \E r \in results, m \in Messages :
         /\ response' = [response EXCEPT ![i] = r]
         /\ caught' = [caught EXCEPT ![i] = IF Raises(r) THEN Some(m) ELSE None]
         /\ outcome' = [outcome EXCEPT ![i] = Outcome(r, m)]
         /\ pc' = [pc EXCEPT ![i] = AfterPost(r)]
         /\ trace' = [trace EXCEPT ![i] =
                @ \o (IF Raises(r) THEN <<"post_end", "except">> ELSE <<"post_end">>)]
    /\ UNCHANGED <<opus_data, session_id, audio_file_path, pcm_data, storage,
                   issued, uploaded>>
    /\ UNCHANGED nonAsrVars

\* os_remove that leaves the file where it is.
os_remove_skipped(path, ok) == storage

\* os.remove(path): the storage afterwards, `ok` telling whether it worked.
os_remove(path, ok) == IF ok THEN Removed(path) ELSE storage

\* finally_remove with a failing os.remove left uncaught: the exception
\* replaces the pending return.
finally_remove_escalating(i) ==
    /\ pc[i] = "finally"
    /\ \E ok \in (IF Exists(PathOf(i)) THEN BOOLEAN ELSE {FALSE}) :
         /\ storage' = os_remove(PathOf(i), ok)
         /\ trace' = [trace EXCEPT ![i] =
                @ \o (IF ok THEN <<"remove", "return">> ELSE <<"remove", "raise">>)]
         /\ pc' = [pc EXCEPT ![i] = IF ok THEN "done" ELSE "raised"]
    /\ UNCHANGED <<opus_data, session_id, audio_file_path, pcm_data, issued,
                   uploaded, response, caught, outcome>>
    /\ UNCHANGED nonAsrVars

\* Lines 134-139: the finally block, then the pending return.  os.remove
\* raises when the file is gone, and may raise when it is there; either way
\* only a warning is logged.
finally_remove(i) ==
    /\ pc[i] = "finally"
    /\ \E ok \in (IF Exists(PathOf(i)) THEN BOOLEAN ELSE {FALSE}) :
         /\ storage' = os_remove(PathOf(i), ok)
         /\ trace' = [trace EXCEPT ![i] =
                @ \o (IF ok THEN <<"remove", "return">>
                            ELSE <<"remove", "warning", "return">>)]
    /\ pc' = [pc EXCEPT ![i] = "done"]
    /\ UNCHANGED <<opus_data, session_id, audio_file_path, pcm_data, issued,
                   uploaded, response, caught, outcome>>
    /\ UNCHANGED nonAsrVars

speech_to_text(i, lists, results) ==
    \/ save_audio_to_file(i, lists)
    \/ check_exists(i)
    \/ open_and_post(i)
    \/ post_returns(i, results)
    \/ finally_remove(i)

\* Something other than the provider (a temp-directory cleaner, an operator)
\* deletes a file of the temp directory: the case lines 90-92 and 136-139
\* are written for.
ExternalRemove ==
    /\ \E f \in storage : storage' = storage \ {f}
    /\ UNCHANGED <<pc, opus_data, session_id, audio_file_path, pcm_data, issued,
                   uploaded, response, caught, outcome, trace>>
    /\ UNCHANGED nonAsrVars

\* ------------------------------------------------------------ the form data

\* The options of a call (lines 64-69): language_code and num_speakers are
\* None, or a value that may be the empty string or 0.
LanguageCodes == {None, Some(""), Some("en")}
SpeakerCounts == {None, Some(0), Some(1), Some(32)}
Granularities == {"word", "character"}
OptionSets ==
    [language_code : LanguageCodes, tag_audio_events : BOOLEAN,
     num_speakers : SpeakerCounts, timestamps_granularity : Granularities,
     diarize : BOOLEAN, enable_logging : BOOLEAN]
DefaultOptions ==
    [language_code |-> None, tag_audio_events |-> TRUE, num_speakers |-> None,
     timestamps_granularity |-> "word", diarize |-> FALSE, enable_logging |-> TRUE]

\* str(b) of a bool, str(n) of an int, and str.lower().
StrOfBool(b) == IF b THEN "True" ELSE "False"
StrOfInt(n) == CASE n = 0 -> "0" [] n = 1 -> "1" [] n = 32 -> "32"
lower(s) == CASE s = "True" -> "true" [] s = "False" -> "false" [] OTHER -> s

\* Truthy with `is not None` in the place of the truth test.
TruthyNotNone(opt, empty) == opt # None

\* `if language_code:` / `if num_speakers:` - None is false, and so is the
\* empty value ("" or 0).
Truthy(opt, empty) == opt # None /\ opt[1] # empty

\* Lines 99-111: the form fields, as <<name, value>> pairs.
FormData(o) ==
    {<<"model_id", "scribe_v1">>,
     <<"enable_logging", lower(StrOfBool(o.enable_logging))>>,
     <<"tag_audio_events", lower(StrOfBool(o.tag_audio_events))>>,
     <<"timestamps_granularity", o.timestamps_granularity>>,
     <<"diarize", lower(StrOfBool(o.diarize))>>,
     <<"file_format", "pcm_s16le_16">>}
    \cup (IF Truthy(o.language_code, "")
            THEN {<<"language_code", o.language_code[1]>>} ELSE {})
    \cup (IF Truthy(o.num_speakers, 0)
            THEN {<<"num_speakers", StrOfInt(o.num_speakers[1])>>} ELSE {})

\* The form data of one call, built from its options.
build_form_data ==
    /\ data = None
    /\ data' = Some(FormData(options))
    /\ UNCHANGED <<options, asrVars, providerVars, intentVars>>

\* --------------------------------------------------------- the intent cache

\* self.cache_expiry, in seconds.
cache_expiry == 600
\* self.cache_max_size.  The source sets it to 100; the model runs the cache
\* at a small size, every statement about it being made in terms of it.
cache_max_size == 2
\* The clock stops here.
MaxTime == 602

\* The texts detect_intent is called with: enough of them to overfill the
\* cache.
IntentTexts == 1..(cache_max_size + 2)

\* hashlib.md5(text.encode()).hexdigest(), taken to be free of collisions.
Md5(text) == <<"md5", text>>

\* What the LLM answers: JSON with a function_call, other JSON object, text
\* that is not JSON, or JSON that is no container (a number), on which
\* `"function_call" in intent_data` raises TypeError.
LlmReplies == {"function_call", "object", "not_json", "scalar"}
\* How long the LLM call takes, and how far the clock moves between calls.
LlmDelays == {0, 300}
Ticks == {300, 301}
DefaultIntent == "continue_chat"

\* Fresh with the entry already stale at exactly cache_expiry seconds.
FreshStrictly(entry, t) == t - entry.timestamp < cache_expiry

\* Line 115: time.time() - cache_entry["timestamp"] <= self.cache_expiry
Fresh(entry, t) == t - entry.timestamp <= cache_expiry

\* Line 83: now - v["timestamp"] > self.cache_expiry
Expired(entry, t) == t - entry.timestamp > cache_expiry

Keys(cache) == {cache[k].key : k \in DOMAIN cache}
Lookup(cache, key) == cache[CHOOSE k \in DOMAIN cache : cache[k].key = key]

\* sorted(items, key=timestamp): a stable sort, by insertion.
RECURSIVE InsertSorted(_, _)
InsertSorted(entry, sorted) ==
    IF sorted = << >> THEN <<entry>>
    ELSE IF sorted[Len(sorted)].timestamp <= entry.timestamp
        THEN Append(sorted, entry)
        ELSE Append(InsertSorted(entry, SubSeq(sorted, 1, Len(sorted) - 1)),
                    sorted[Len(sorted)])
RECURSIVE Sorted(_)
Sorted(cache) ==
    IF cache = << >> THEN << >>
    ELSE InsertSorted(cache[Len(cache)], Sorted(SubSeq(cache, 1, Len(cache) - 1)))

\* del self.intent_cache[key] for every key of a set.
Without(cache, keys) ==
    LET Kept(entry) == entry.key \notin keys
    IN  SelectSeq(cache, Kept)

\* The expired entries gone (lines 80-86).
Unexpired(cache, t) ==
    Without(cache, {cache[k].key : k \in {j \in DOMAIN cache : Expired(cache[j], t)}})

\* clean_cache with the newest entries dropped when the cache is too large.
clean_cache_dropping_newest(cache, t) ==
    LET live == Unexpired(cache, t)
        sorted == Sorted(live)
    IN  IF Len(live) > cache_max_size
          THEN Without(live, Keys(SubSeq(sorted, cache_max_size + 1, Len(sorted))))
          ELSE live

\* Lines 76-95: the expired entries are deleted, and then, if more than
\* cache_max_size are left, those that come first by timestamp.
clean_cache(cache, t) ==
    LET live == Unexpired(cache, t)
        sorted == Sorted(live)
    IN  IF Len(live) > cache_max_size
          THEN Without(live, Keys(SubSeq(sorted, 1, Len(sorted) - cache_max_size)))
          ELSE live

\* self.intent_cache[cache_key] = {...}: an existing key keeps its place.
Put(cache, entry) ==
    IF entry.key \in Keys(cache)
      THEN [k \in DOMAIN cache |-> IF cache[k].key = entry.key THEN entry ELSE cache[k]]
      ELSE Append(cache, entry)

\* Cacheable with the default intent of the except clause cached as well.
CacheableAlways(reply) == reply \in {"function_call", "object", "not_json"}

\* Lines 176-221: both branches of the try store the entry; the except
\* clause of JSONDecodeError stores nothing.
Cacheable(reply) == reply \in {"function_call", "object"}

\* AfterHit with the timestamp of the entry that was hit set to the time of
\* the hit.
AfterHitRefreshed(cache, key, t) ==
    [k \in DOMAIN cache |->
        IF cache[k].key = key THEN [cache[k] EXCEPT !.timestamp = t] ELSE cache[k]]

\* Lines 112-120: the cache once an entry has been served from it.
AfterHit(cache, key, t) == cache

NoCall ==
    [text |-> 0, hit |-> FALSE, reply |-> None, returned |-> None, llm_calls |-> 0,
     cleaned |-> << >>, dropped |-> << >>]

\* Lines 97-221, with a non-empty dialogue_history and self.llm set.
detect_intent(text) ==
    /\ LET cache_key == Md5(text)
       IN  IF cache_key \in Keys(intent_cache)
              /\ Fresh(Lookup(intent_cache, cache_key), now)
             THEN /\ intent_cache' = AfterHit(intent_cache, cache_key, now)
                  /\ last_call' =
                       [text |-> text, hit |-> TRUE, reply |-> None,
                        returned |-> Some(Lookup(intent_cache, cache_key).intent),
                        llm_calls |-> 0, cleaned |-> intent_cache, dropped |-> << >>]
                  /\ UNCHANGED now
             ELSE \E reply \in LlmReplies, d \in LlmDelays :
                    LET cleaned == clean_cache(intent_cache, now)
                        entry == [key |-> cache_key, intent |-> reply,
                                  timestamp |-> now + d]
                    IN  /\ now + d <= MaxTime
                        /\ now' = now + d
                        /\ intent_cache' =
                             IF Cacheable(reply) THEN Put(cleaned, entry) ELSE cleaned
                        /\ last_call' =
                             [text |-> text, hit |-> FALSE, reply |-> Some(reply),
                              returned |->
                                 CASE reply = "not_json" -> Some(DefaultIntent)
                                   [] reply = "scalar" -> None
                                   [] OTHER -> Some(reply),
                              llm_calls |-> 1, cleaned |-> cleaned,
                              dropped |-> Without(Unexpired(intent_cache, now),
                                                 Keys(cleaned))]
    /\ UNCHANGED <<asrVars, providerVars, formVars>>

\* Time passes between calls.
Tick ==
    /\ \E d \in Ticks : now + d <= MaxTime /\ now' = now + d
    /\ UNCHANGED <<intent_cache, last_call>>
    /\ UNCHANGED <<asrVars, providerVars, formVars>>

\* ------------------------------------------------------- the specifications

AsrIdle ==
    /\ pc = [i \in Invocations |-> "idle"]
    /\ opus_data = [i \in Invocations |-> << >>]
    /\ session_id = [i \in Invocations |-> ""]
    /\ audio_file_path = [i \in Invocations |-> None]
    /\ pcm_data = [i \in Invocations |-> << >>]
    /\ storage = {}
    /\ issued = 0
    /\ uploaded = [i \in Invocations |-> None]
    /\ response = [i \in Invocations |-> None]
    /\ caught = [i \in Invocations |-> None]
    /\ outcome = [i \in Invocations |-> <<None, None>>]
    /\ trace = [i \in Invocations |-> << >>]

ProviderReady ==
    /\ provider = "constructed"
    /\ api_key = Some("key")
    /\ temp_dir = TRUE
    /\ dir_ops = <<"mkdir">>

FormIdle ==
    /\ options = DefaultOptions
    /\ data = None

IntentIdle ==
    /\ intent_cache = << >>
    /\ now = 0
    /\ last_call = NoCall

Init == AsrIdle /\ ProviderReady /\ FormIdle /\ IntentIdle

\* One call at a time, over every packet list and every result of the request.
Next ==
    \/ speech_to_text(1, PacketLists, PostResults)
    \/ ExternalRemove

Spec == Init /\ [][Next]_vars

\* Calls that overlap in time.
NextConc ==
    \/ \E i \in Invocations : speech_to_text(i, ConcPacketLists, ConcPostResults)
    \/ ExternalRemove

SpecConc == Init /\ [][NextConc]_vars

\* The form data alone, over every combination of options.
InitForm ==
    /\ AsrIdle
    /\ ProviderReady
    /\ options \in OptionSets
    /\ data = None
    /\ IntentIdle

NextForm == build_form_data

SpecForm == InitForm /\ [][NextForm]_vars

\* The provider from its construction on: calls are made on a constructed
\* provider only.
InitProvider ==
    /\ AsrIdle
    /\ provider = "unconstructed"
    /\ api_key = None
    /\ temp_dir \in BOOLEAN
    /\ dir_ops = << >>
    /\ FormIdle
    /\ IntentIdle

NextProvider ==
    \/ ASRProvider_init
    \/ provider = "constructed" /\ Next

SpecProvider == InitProvider /\ [][NextProvider]_vars

\* The intent provider: calls of detect_intent as time passes.
NextIntent ==
    \/ \E text \in IntentTexts : detect_intent(text)
    \/ Tick

SpecIntent == Init /\ [][NextIntent]_vars

\* ---------------------------------------------------------------- the claims

Has(i, ev) == \E k \in DOMAIN trace[i] : trace[i][k] = ev
Count(i, ev) == Cardinality({k \in DOMAIN trace[i] : trace[i][k] = ev})
Returned(i) == pc[i] = "done"
Allocated(i) == audio_file_path[i] # None

\* C1 as stated: whenever speech_to_text has returned an outcome, the file
\* at the path it allocated is not on storage.
C1_ArtifactAbsentOnReturn ==
    \A i \in Invocations : Returned(i) => ~Exists(PathOf(i))

\* C1 as amended: whenever speech_to_text has returned an outcome, the file
\* at the path it allocated is not on storage, unless os.remove failed on it
\* and the warning of line 139 was logged.
C1_ArtifactAbsentUnlessRemoveFailed ==
    \A i \in Invocations :
        Returned(i) /\ Exists(PathOf(i)) => Has(i, "warning")

\* A remote failure (HTTP 500) returned and the file removed without warning.
C1_Witness ==
    \E i \in Invocations :
        /\ Returned(i)
        /\ response[i] # None /\ response[i][1].status_code # HTTP_OK
        /\ ~Exists(PathOf(i))
        /\ Has(i, "remove") /\ ~Has(i, "warning")

\* C2 as stated: speech_to_text never raises to its caller.
C2_NeverRaises ==
    \A i \in Invocations : pc[i] # "raised"

\* C3 as stated: once the path is allocated, the removal of the file is
\* attempted on every exit of the call, a return or a raise.
C3_ReleaseOnEveryExit ==
    \A i \in Invocations :
        Allocated(i) /\ pc[i] \in {"done", "raised"} => Has(i, "remove")

\* C4: in every invocation, when the HTTP request begins every packet has
\* been through the decoder and the container has been written, and nothing
\* is decoded or written after it; the removal of the file comes only after
\* the request has ended (returned or raised), and no request follows it.
C4_DecodeWriteThenPostThenRemove ==
    \A i \in Invocations : \A k \in DOMAIN trace[i] :
        /\ trace[i][k] = "post" =>
             /\ Cardinality({d \in 1..(k - 1) : trace[i][d] = "decode"})
                    = Len(opus_data[i])
             /\ \E w \in 1..(k - 1) : trace[i][w] = "write"
             /\ \A l \in DOMAIN trace[i] :
                    l > k => trace[i][l] \notin {"decode", "write", "post"}
             /\ \A l \in 1..(k - 1) : trace[i][l] # "remove"
        /\ trace[i][k] = "remove" =>
             /\ \A q \in 1..(k - 1) :
                    trace[i][q] = "post"
                        => \E e \in (q + 1)..(k - 1) : trace[i][e] = "post_end"
             /\ \A l \in DOMAIN trace[i] : l > k => trace[i][l] # "post"

\* A call over two packets whose request ended and whose file was removed.
C4_Witness ==
    \E i \in Invocations :
        /\ Returned(i)
        /\ Len(opus_data[i]) = 2
        /\ Has(i, "post_end") /\ Has(i, "remove")

\* The frames of the packets the decoder accepts, in packet order, stated
\* from the positions of those packets and not by running the loop.
GoodPositions(packets) == {k \in DOMAIN packets : decode(packets[k]) # None}
IsDecodedFrom(frames, packets) ==
    /\ Len(frames) = Cardinality(GoodPositions(packets))
    /\ \A k \in GoodPositions(packets) :
          frames[Cardinality({g \in GoodPositions(packets) : g <= k})]
              = decode(packets[k])[1]

\* C5: the sample data handed to the container writer, held by the written
\* file and sent with the request is the frames of exactly the packets that
\* decode, in packet order: one frame per such packet, none for a packet whose
\* decode fails, whatever comes before or after it.
C5_FramesOfDecodedPackets ==
    \A i \in Invocations :
        /\ Allocated(i) => IsDecodedFrom(pcm_data[i], opus_data[i])
        /\ Allocated(i) => \A f \in storage :
              f.path = PathOf(i) /\ f.whole => IsDecodedFrom(f.frames, opus_data[i])
        /\ uploaded[i] # None => IsDecodedFrom(uploaded[i][1], opus_data[i])

\* A corrupt packet followed by a good one: the file holds the one frame.
C5_Witness ==
    \E i \in Invocations :
        /\ Allocated(i)
        /\ Len(opus_data[i]) = 2
        /\ opus_data[i][1] \in CorruptPackets /\ opus_data[i][2] \in GoodPackets
        /\ \E f \in storage :
              f.path = PathOf(i) /\ f.whole /\ Len(f.frames) = 1

\* s is t without its surrounding whitespace: t is s between two runs of
\* whitespace, and s neither starts nor ends with whitespace.
IsTrimmed(s, t) ==
    /\ \E a, b \in 0..Len(t) :
          /\ a + b <= Len(t)
          /\ s = SubSeq(t, a + 1, Len(t) - b)
          /\ \A k \in 1..a : t[k] \in Whitespace
          /\ \A k \in (Len(t) - b + 1)..Len(t) : t[k] \in Whitespace
    /\ s # << >> => s[1] \notin Whitespace /\ s[Len(s)] \notin Whitespace

\* C6: a call that got past the existence check and returned, returns
\* (None, message) if an exception was caught; otherwise, on HTTP 200, the
\* "text" member trimmed ("" if absent) with no error, and on any other status
\* no text and the response body as it is.  A 200 response whose body is an
\* object with a string or no "text", and a non-200 response, raise nothing.
C6_OutcomeFromRequest ==
    \A i \in Invocations :
        Returned(i) /\ Has(i, "exists") =>
            LET r == response[i]
                o == outcome[i]
            IN  /\ caught[i] # None => o = <<None, caught[i]>>
                /\ ~Has(i, "post_end") \/ r = None => caught[i] # None
                /\ r # None /\ r[1].status_code # HTTP_OK =>
                      /\ caught[i] = None
                      /\ o = <<None, Some(r[1].text)>>
                /\ r # None /\ r[1].status_code = HTTP_OK /\ caught[i] = None =>
                      /\ r[1].json.valid /\ r[1].json.object
                      /\ o[2] = None /\ o[1] # None
                      /\ IF r[1].json.text = None
                           THEN o[1][1] = << >>
                           ELSE /\ ~r[1].json.text[1].null
                                /\ IsTrimmed(o[1][1], r[1].json.text[1].str)
                /\ /\ r # None /\ r[1].status_code = HTTP_OK
                   /\ r[1].json.valid /\ r[1].json.object
                   /\ (r[1].json.text = None \/ ~r[1].json.text[1].null)
                   => caught[i] = None

\* HTTP 200 with {"text": " h "} returned as ("h", None).
C6_Witness ==
    \E i \in Invocations :
        /\ Returned(i)
        /\ response[i] # None /\ response[i][1].status_code = HTTP_OK
        /\ response[i][1].json.text = Some(JsonString(<<" ", "h", " ">>))
        /\ outcome[i] = <<Some(<<"h">>), None>>

\* C7: a returned pair never has both a text and an error, and has neither
\* exactly when the file was missing at the existence check; a response with
\* a status other than 200 and a caught exception give an error, and a 200
\* response handled without exception gives a text.
C7_OutcomeShape ==
    \A i \in Invocations :
        Returned(i) =>
            LET o == outcome[i]
            IN  /\ ~(o[1] # None /\ o[2] # None)
                /\ (o[1] = None /\ o[2] = None) <=> Has(i, "missing")
                /\ caught[i] # None => o[2] # None
                /\ response[i] # None /\ response[i][1].status_code # HTTP_OK
                      => o[2] # None
                /\ /\ response[i] # None /\ response[i][1].status_code = HTTP_OK
                   /\ caught[i] = None
                   => o[1] # None

\* requests.post raised an exception whose message is empty: the error
\* returned is the empty string, not None.
C7_Witness ==
    \E i \in Invocations :
        /\ Returned(i)
        /\ Has(i, "post_end") /\ response[i] = None
        /\ outcome[i] = <<None, Some(<< >>)>>

\* C8: a call that finds its file missing at the existence check returns
\* (None, None) in that step, having sent no request, and a call that has
\* returned takes no further step.
C8_MissingArtifactShortCircuits ==
    [][\A i \in Invocations :
         /\ pc[i] = "check" /\ ~Exists(PathOf(i)) /\ pc'[i] # pc[i] =>
              /\ pc'[i] = "done"
              /\ outcome'[i] = <<None, None>>
              /\ \A k \in DOMAIN trace'[i] : trace'[i][k] # "post"
         /\ pc[i] = "done" => pc'[i] = "done" /\ trace'[i] = trace[i]]_vars

\* The file was deleted between the write and the check; the call returned.
C8_Witness ==
    \E i \in Invocations :
        /\ Returned(i) /\ Has(i, "missing")
        /\ Has(i, "write") /\ outcome[i] = <<None, None>>

\* C9: a call opens its file at most once and sends at most one request;
\* once a request has ended nothing is opened or sent again.
C9_SingleAttempt ==
    \A i \in Invocations :
        /\ Count(i, "post") <= 1
        /\ Count(i, "open") <= 1
        /\ \A e, l \in DOMAIN trace[i] :
              trace[i][e] \in {"post_end", "except"} /\ l > e
                  => trace[i][l] \notin {"open", "post"}

\* A request answered with a status other than 200, and the call returned
\* after that single request.
C9_Witness ==
    \E i \in Invocations :
        /\ Returned(i)
        /\ response[i] # None /\ response[i][1].status_code # HTTP_OK
        /\ Count(i, "post") = 1 /\ outcome[i][2] # None

\* What belongs to invocation j: its variables and the file at its path.
Own(j) == <<pc[j], opus_data[j], session_id[j], audio_file_path[j], pcm_data[j],
            uploaded[j], response[j], caught[j], outcome[j], trace[j]>>
FilesAt(store, path) == {f \in store : f.path = path}

\* C10: two invocations never hold the same path, whatever their session
\* identifiers; a step of one invocation changes neither the variables of
\* another nor the file at another's path; what an invocation sends is the
\* frames it decoded itself.
C10_InvocationsIsolated ==
    /\ [](\A i, j \in Invocations :
            i # j /\ Allocated(i) /\ Allocated(j) => PathOf(i) # PathOf(j))
    /\ [](\A i \in Invocations :
            uploaded[i] # None => uploaded[i] = Some(pcm_data[i]))
    /\ [][\A i, j \in Invocations :
            i # j /\ pc'[i] # pc[i] =>
                /\ Own(j)' = Own(j)
                /\ Allocated(j) =>
                      FilesAt(storage', PathOf(j)) = FilesAt(storage, PathOf(j))]_vars

\* Two calls of the same session, both with their request in flight and
\* both files on storage.
C10_Witness ==
    \E i, j \in Invocations :
        /\ i # j
        /\ pc[i] = "post" /\ pc[j] = "post"
        /\ session_id[i] = session_id[j]
        /\ Exists(PathOf(i)) /\ Exists(PathOf(j))

\* C11: the step that runs the finally block always ends in a return, with
\* the pair the try block had produced; when os.remove fails in it (the file
\* was already gone, or is still there afterwards) the warning is logged.
C11_RemoveFailureOnlyLogged ==
    [][\A i \in Invocations :
         pc[i] = "finally" /\ pc'[i] # pc[i] =>
            /\ pc'[i] = "done"
            /\ outcome'[i] = outcome[i]
            /\ (~Exists(PathOf(i)) \/ FilesAt(storage', PathOf(i)) # {})
                  => \E k \in DOMAIN trace'[i] : trace'[i][k] = "warning"]_vars

\* A successful transcription returned although os.remove failed and the
\* file is still on storage.
C11_Witness ==
    \E i \in Invocations :
        /\ Returned(i)
        /\ Has(i, "warning") /\ Exists(PathOf(i))
        /\ outcome[i][1] # None /\ outcome[i][2] = None

\* C12: a constructor call whose configuration has no API key, or an empty
\* one, ends in ValueError and touches no directory: the temp directory is as
\* it was and no mkdir was made; and no file is ever written through a
\* provider that was not constructed.
C12_NoKeyNoFileOperation ==
    /\ [][provider = "unconstructed" /\ provider' # provider
            /\ api_key' \in {None, Some("")}
          => /\ provider' = "ValueError"
             /\ temp_dir' = temp_dir
             /\ dir_ops' = dir_ops
             /\ storage' = storage]_vars
    /\ [](provider # "constructed" =>
            storage = {} /\ \A i \in Invocations : pc[i] = "idle")

\* Construction with an empty key failed, the temp directory still absent.
C12_Witness ==
    /\ provider = "ValueError"
    /\ api_key = Some("")
    /\ ~temp_dir /\ dir_ops = << >>

\* C13: a call with an empty packet list writes a container of the header
\* alone, and is not cut short: unless its file was missing at the check it
\* opens the file, sends the request (with no sample data) unless the open
\* raised, returns the pair mapped from the response, and attempts the removal.
C13_EmptyListStillSent ==
    \A i \in Invocations :
        Allocated(i) /\ opus_data[i] = << >> =>
            /\ pcm_data[i] = << >>
            /\ \A f \in storage :
                  f.path = PathOf(i) /\ f.whole
                      => f.frames = << >> /\ ContainerBytes(f.frames) = HeaderSize
            /\ uploaded[i] # None => uploaded[i] = Some(<< >>)
            /\ Returned(i) /\ ~Has(i, "missing") =>
                  /\ Has(i, "open") /\ Has(i, "remove")
                  /\ Has(i, "post") \/ caught[i] # None
                  /\ Has(i, "post") => Has(i, "post_end") /\ uploaded[i] # None
                  /\ response[i] # None /\ response[i][1].status_code # HTTP_OK
                        => outcome[i] = <<None, Some(response[i][1].text)>>
                  /\ response[i] # None /\ response[i][1].status_code = HTTP_OK
                        /\ caught[i] = None
                        => outcome[i][1] # None /\ outcome[i][2] = None

\* An empty packet list, sent, answered with HTTP 200, and the file removed.
C13_Witness ==
    \E i \in Invocations :
        /\ Returned(i) /\ opus_data[i] = << >>
        /\ uploaded[i] = Some(<< >>)
        /\ response[i] # None /\ response[i][1].status_code = HTTP_OK
        /\ outcome[i][1] # None
        /\ Has(i, "remove") /\ ~Exists(PathOf(i))

\* C14: when every packet that decodes yields a frame of 960 samples, the
\* written container is 44 header bytes plus 1920 bytes for each packet that
\* decodes; a packet that fails adds nothing.
C14_ContainerLength ==
    \A i \in Invocations :
        Allocated(i) => \A f \in storage :
            /\ f.path = PathOf(i) /\ f.whole
            /\ \A k \in GoodPositions(opus_data[i]) :
                  decode(opus_data[i][k])[1].samples = 960
            => ContainerBytes(f.frames)
                  = 44 + Cardinality(GoodPositions(opus_data[i])) * 1920

\* A corrupt packet and a good one: the container is 44 + 1920 bytes long.
C14_Witness ==
    \E i \in Invocations :
        /\ Allocated(i)
        /\ \E k \in DOMAIN opus_data[i] : opus_data[i][k] \in CorruptPackets
        /\ \E f \in storage :
              /\ f.path = PathOf(i) /\ f.whole
              /\ ContainerBytes(f.frames) = 44 + 1920

Fields(d) == {p[1] : p \in d}
ValuesOf(d, name) == {p[2] : p \in {q \in d : q[1] = name}}
FlagsLowercase(o, d) ==
    /\ ValuesOf(d, "enable_logging") = {IF o.enable_logging THEN "true" ELSE "false"}
    /\ ValuesOf(d, "tag_audio_events") = {IF o.tag_audio_events THEN "true" ELSE "false"}
    /\ ValuesOf(d, "diarize") = {IF o.diarize THEN "true" ELSE "false"}

\* C15 as stated: the form data holds language_code exactly when a language
\* code was passed and num_speakers exactly when a speaker count was passed,
\* and the three flags always, as "true" or "false".
C15_FieldsIffSupplied ==
    data # None =>
        /\ "language_code" \in Fields(data[1]) <=> options.language_code # None
        /\ "num_speakers" \in Fields(data[1]) <=> options.num_speakers # None
        /\ FlagsLowercase(options, data[1])

\* C15 as amended: the form data holds language_code exactly when a
\* non-empty language code was passed (with that code as its value) and
\* num_speakers exactly when a speaker count other than 0 was passed (as its
\* decimal string); no field is ever sent empty; the three flags are always
\* there, as "true" or "false".
C15_FieldsIffTruthy ==
    data # None =>
        /\ "language_code" \in Fields(data[1])
              <=> options.language_code \notin {None, Some("")}
        /\ "language_code" \in Fields(data[1])
              => ValuesOf(data[1], "language_code") = {options.language_code[1]}
        /\ "num_speakers" \in Fields(data[1])
              <=> options.num_speakers \notin {None, Some(0)}
        /\ options.num_speakers = Some(32)
              => ValuesOf(data[1], "num_speakers") = {"32"}
        /\ \A p \in data[1] : p[2] # ""
        /\ FlagsLowercase(options, data[1])

\* A language code and no speaker count: the one field sent, the other not.
C15_Witness ==
    /\ data # None
    /\ options.language_code = Some("en") /\ options.num_speakers = None
    /\ <<"language_code", "en">> \in data[1]
    /\ "num_speakers" \notin Fields(data[1])
    /\ <<"diarize", "false">> \in data[1]

Range(cache) == {cache[k] : k \in DOMAIN cache}
\* A step that is a call of detect_intent (a repeated call that changes
\* nothing is a stuttering step).
Called == last_call' # last_call \/ intent_cache' # intent_cache

\* C16 as stated: the intent cache never holds more than cache_max_size
\* entries.
C16_CacheWithinMaxSize ==
    Len(intent_cache) <= cache_max_size

\* C17: a call of detect_intent is answered from the cache exactly when the
\* cache holds an entry for the text that is at most cache_expiry seconds
\* old; it then returns that entry's intent and does not call the LLM; every
\* other call, one that finds an older entry included, calls the LLM once.
C17_HitIffFreshEntry ==
    [][Called =>
         LET c == last_call'
             held == {e \in Range(intent_cache) :
                        e.key = Md5(c.text) /\ now - e.timestamp <= 600}
         IN  /\ c.hit <=> held # {}
             /\ c.hit => /\ c.llm_calls = 0
                         /\ \E e \in held : c.returned = Some(e.intent)
             /\ ~c.hit => c.llm_calls = 1]_vars

\* A call answered from an entry that is exactly 600 seconds old.
C17_Witness ==
    /\ last_call.hit
    /\ \E e \in Range(intent_cache) :
          e.key = Md5(last_call.text) /\ now - e.timestamp = 600

\* C18: a call whose LLM answer is not JSON returns the default intent and
\* leaves no entry for its text in the cache; the call that follows it for
\* the same text calls the LLM.
C18_ParseFailureNotCached ==
    [][/\ Called /\ last_call'.reply = Some("not_json") =>
            /\ last_call'.returned = Some(DefaultIntent)
            /\ Md5(last_call'.text) \notin Keys(intent_cache')
       /\ last_call.reply = Some("not_json") /\ last_call'.text = last_call.text
            => last_call'.llm_calls = 1 /\ ~last_call'.hit]_vars

\* The answer for a text was not JSON while the cache held other entries:
\* the default intent came back, and the text has no entry.
C18_Witness ==
    /\ last_call.reply = Some("not_json")
    /\ last_call.returned = Some(DefaultIntent)
    /\ intent_cache # << >>
    /\ Md5(last_call.text) \notin Keys(intent_cache)

\* C19: a call answered from the cache leaves the cache as it was; an entry
\* appears or changes only in a call that was not answered from the cache,
\* with the time of that call as its timestamp; and the entry served is at
\* most cache_expiry seconds older than its timestamp.
C19_HitLeavesCacheUnchanged ==
    [][/\ last_call'.hit => intent_cache' = intent_cache
       /\ \A e \in Range(intent_cache') :
             e \notin Range(intent_cache)
                 => ~last_call'.hit /\ e.timestamp = now'
       /\ Called /\ last_call'.hit =>
             \E e \in Range(intent_cache') :
                 /\ e.key = Md5(last_call'.text)
                 /\ now' - e.timestamp <= cache_expiry]_vars

\* An entry stored 300 seconds ago is served, its timestamp still the old one.
C19_Witness ==
    /\ last_call.hit
    /\ \E e \in Range(intent_cache) :
          e.key = Md5(last_call.text) /\ now - e.timestamp = 300

\* C20: in a call that is not answered from the cache, what clean_cache
\* leaves is made of entries that were there and are not expired; if at most
\* cache_max_size entries were not expired it leaves them all; otherwise it
\* leaves exactly cache_max_size, and every unexpired entry it removed has a
\* timestamp no newer than that of every entry it left.
C20_CleanCacheKeepsNewest ==
    [][Called /\ ~last_call'.hit =>
         LET before == Range(intent_cache)
             live == {e \in before : ~(now - e.timestamp > cache_expiry)}
             after == Range(last_call'.cleaned)
         IN  /\ after \subseteq live
             /\ Len(last_call'.cleaned) = Cardinality(after)
             /\ Cardinality(live) <= cache_max_size => after = live
             /\ Cardinality(live) > cache_max_size =>
                   /\ Cardinality(after) = cache_max_size
                   /\ \A r \in live \ after, k \in after :
                         r.timestamp <= k.timestamp]_vars

\* clean_cache removed an unexpired entry that was older than one it kept.
C20_Witness ==
    /\ ~last_call.hit /\ Len(last_call.dropped) = 1
    /\ Len(last_call.cleaned) = cache_max_size
    /\ \E k \in Range(last_call.cleaned) :
          last_call.dropped[1].timestamp < k.timestamp

====
